---- MODULE Spec2Model ----
(***************************************************************************)
(* Model of notecli (src/src/main.rs): the two commands `new <TITLE>` and  *)
(* `list`, the notes directory with its index file notes/notes.json and    *)
(* note files notes/<title>.md, and the interactive viewer display_tui.    *)
(* Vec indices are 0-based as in the source; sequences here are 1-based,   *)
(* so notes[i] of the source is notes[i + 1] here.                         *)
(***************************************************************************)
EXTENDS Integers, Sequences, FiniteSets, TLC

VARIABLES
    dirExists,       \* the directory NOTES_DIR exists
    indexFile,       \* the file NOTES_JSON_FILE
    noteFiles,       \* the files notes/<title>.md: title -> content
    now,             \* the last time Utc::now() returned; each reading is later
    pc,              \* where the process is
    cmd,             \* the subcommand of the running / last process
    diag,            \* the diagnostic the process printed or panicked with
    notes,           \* display_tui: notes
    selected_index,  \* display_tui: selected_index
    show_keybinds,   \* display_tui: show_keybinds
    rawMode,         \* the terminal is in raw mode (enable_raw_mode and
                     \* disable_raw_mode are taken to succeed)
    editor,          \* what the last Command::status() returned
    saved,           \* the Vec<Note> last serialized and written to the index
    toggles,         \* ToggleKeybinds applied since display_tui began, modulo 2
    last             \* the UserAction the loop matched, with the
                     \* selected_index and notes.len() it was applied to
\* editor and last belong to one loop iteration: the next wait for an event
\* starts from "not_run" and NoAction

vars == <<dirExists, indexFile, noteFiles, now, pc, cmd, diag, notes,
          selected_index, show_keybinds, rawMode, editor, saved, toggles,
          last>>

----------------------------------------------------------------------------
(* Bounds *)

\* number of notes created over a run of the model (ticks of the clock)
MaxClock == 3

Titles == {"todo", "idea"}
Contents == {"buy milk", "call"}

----------------------------------------------------------------------------
(* Data *)

\* struct Note
Note(t, c, d) == [title |-> t, content |-> c, date |-> d]

\* usize::MAX, the value 0usize - 1 wraps to when overflow checks are off;
\* narrowed to the largest integer TLC holds (it only has to exceed every index)
USIZE_MAX == 2147483647

\* a file that does not exist / the index file after a write that failed
\* after truncating it
NoFile == [exists |-> FALSE, wf |-> FALSE, json |-> <<>>]
Truncated == [exists |-> TRUE, wf |-> FALSE, json |-> <<>>]

\* serde: a Note is written as a JSON object whose date is an RFC 3339 string
SerNote(n) == [title |-> n.title, content |-> n.content,
               date |-> <<"rfc3339", n.date>>]
\* the date string not parsed back
DeNote_drops_date(o) == Note(o.title, o.content, 0)

DeNote(o) == Note(o.title, o.content, o.date[2])

\* serde_json::to_string(&notes)
to_string(ns) ==
    [exists |-> TRUE, wf |-> TRUE, json |-> [i \in 1..Len(ns) |-> SerNote(ns[i])]]

\* from_str taking a text that does not parse for an empty array
from_str_lenient(data) ==
    [ok |-> TRUE, val |-> [i \in 1..Len(data.json) |-> DeNote(data.json[i])]]

\* serde_json::from_str::<Vec<Note>>(&data)
from_str(data) ==
    IF data.wf
    THEN [ok |-> TRUE, val |-> [i \in 1..Len(data.json) |-> DeNote(data.json[i])]]
    ELSE [ok |-> FALSE, val |-> <<>>]

\* read_to_string not failing on a file that does not exist
read_to_string_always_ok(f) == [ok |-> TRUE, data |-> f]

\* fs::read_to_string(path) of the index file
read_to_string(f) == [ok |-> f.exists, data |-> f]

\* the note inserted at the front
push_front(ns, n) == <<n>> \o ns

\* notes.push(note)
push(ns, n) == Append(ns, n)

\* the last element removed whatever the index
remove_last(ns, index) == SubSeq(ns, 1, Len(ns) - 1)

\* notes.remove(index), index < notes.len()
remove(ns, index) ==
    [j \in 1..(Len(ns) - 1) |-> IF j < index + 1 THEN ns[j] ELSE ns[j + 1]]

\* fs::remove_file of a note file that exists
remove_file(nf, t) == [x \in (DOMAIN nf) \ {t} |-> nf[x]]

\* the editor, when it runs, leaves the file alone or writes a content to it
EditorWrites(nf, t, e) ==
    IF ~e.spawn \/ e.edit = "keep" THEN nf
    ELSE [x \in (DOMAIN nf) \cup {t} |-> IF x = t THEN e.edit ELSE nf[x]]

\* a write that opens the file without truncating it: a shorter text is
\* followed by the tail of the old one and no longer parses
fs_write_no_truncate(old, json, w) ==
    CASE w = "ok" -> IF old.exists /\ Len(json.json) < Len(old.json)
                     THEN Truncated ELSE json
      [] w = "create_failed" -> old
      [] w = "write_failed" -> Truncated

\* fs::write(path, json): File::create then write_all
fs_write(old, json, w) ==
    CASE w = "ok" -> json
      [] w = "create_failed" -> old
      [] w = "write_failed" -> Truncated

WriteOutcomes == {"ok", "create_failed", "write_failed"}

----------------------------------------------------------------------------
(* Process *)

\* the process has returned from main or panicked
Stopped == {"exited", "panicked"}

NoAction == [act |-> "None", sel |-> 0, len |-> 0]

\* the subcommand and its TITLE argument
NoCmd == [name |-> "none", title |-> ""]
CmdNew(t) == [name |-> "new", title |-> t]
CmdList == [name |-> "list", title |-> ""]

Init ==
    /\ dirExists = FALSE
    /\ indexFile = NoFile
    /\ noteFiles = << >>
    /\ now = 0
    /\ pc = "shell"
    /\ cmd = NoCmd
    /\ diag = ""
    /\ notes = <<>>
    /\ selected_index = 0
    /\ show_keybinds = TRUE
    /\ rawMode = FALSE
    /\ editor = "not_run"
    /\ saved = <<>>
    /\ toggles = 0
    /\ last = NoAction

\* the process of a command ends (exit or panic) with the given file system
Halt(p, msg, d, idx, nf) ==
    /\ pc' = p
    /\ diag' = msg
    /\ dirExists' = d
    /\ indexFile' = idx
    /\ noteFiles' = nf

\* Command::new(editor).arg(path).status(): the spawn fails, or the editor
\* runs, leaves the file alone or writes it, and exits with a status
EditorEnv ==
    {[spawn |-> FALSE, status |-> 1, edit |-> "keep"]}
        \cup [spawn : {TRUE}, status : {0, 1}, edit : {"keep"} \cup Contents]

status(e) ==
    IF ~e.spawn THEN "spawn_failed" ELSE IF e.status = 0 THEN "exit0" ELSE "exit1"

\* the result of status() dropped instead of unwrapped
expect_never_panics(e) == FALSE

\* .status().expect("Falha ao abrir o editor") panics: only an Err, a spawn
\* that failed, does; the ExitStatus is not looked at
expect_status_panics(e) == status(e) = "spawn_failed"

\* save_note(note), the directory existing
save_note(note, nf) ==
    LET rd == read_to_string(indexFile)
        parsed == from_str(rd.data)
        loaded == IF rd.ok THEN parsed.val ELSE <<>>
        pushed == push(loaded, note)
        json == to_string(pushed)
    IN  IF rd.ok /\ ~parsed.ok
        THEN /\ Halt("panicked", "Erro ao desserializar as notas", TRUE,
                     indexFile, nf)
             /\ UNCHANGED saved
        ELSE \E w \in WriteOutcomes :
             IF w # "ok"
             THEN /\ Halt("panicked", "Erro ao escrever no arquivo JSON", TRUE,
                          fs_write(indexFile, json, w), nf)
                  /\ UNCHANGED saved
             ELSE /\ Halt("exited", "", TRUE, fs_write(indexFile, json, w), nf)
                  /\ saved' = pushed

\* main: Some("new") => create_new_note(&title)
create_new_note(title) ==
    /\ pc = "shell"
    /\ now < MaxClock
    /\ cmd' = CmdNew(title)
    /\ notes' = <<>>
    /\ selected_index' = 0
    /\ show_keybinds' = TRUE /\ toggles' = 0
    /\ last' = NoAction
    /\ UNCHANGED rawMode
    /\ \E mkdir_ok \in (IF dirExists THEN {TRUE} ELSE BOOLEAN) :
        IF ~dirExists /\ ~mkdir_ok
        THEN /\ Halt("panicked", "Erro ao criar o diretorio 'notes'",
                     FALSE, indexFile, noteFiles)
             /\ editor' = "not_run"
             /\ UNCHANGED <<now, saved>>
        ELSE \E e \in EditorEnv :
             LET nf == EditorWrites(noteFiles, title, e)
             IN  /\ editor' = status(e)
                 /\ IF expect_status_panics(e)
                    THEN /\ Halt("panicked", "Falha ao abrir o editor", TRUE,
                                 indexFile, nf)
                         /\ UNCHANGED <<now, saved>>
                    ELSE IF title \notin DOMAIN nf
                    THEN /\ Halt("panicked", "Erro ao ler o arquivo", TRUE,
                                 indexFile, nf)
                         /\ UNCHANGED <<now, saved>>
                    ELSE /\ save_note(Note(title, nf[title], now + 1), nf)
                         /\ now' = now + 1

----------------------------------------------------------------------------
(* Viewer *)

\* a panic inside display_tui: the process stops where it is
Panic(msg) ==
    /\ pc' = "panicked"
    /\ diag' = msg

\* main: Some("list") => list_notes(), then display_tui(notes) up to the loop
list_notes ==
    /\ pc = "shell"
    /\ cmd' = CmdList
    /\ last' = NoAction
    /\ editor' = "not_run"
    /\ UNCHANGED <<saved, dirExists, indexFile, noteFiles, now>>
    /\ LET rd == read_to_string(indexFile)
           parsed == from_str(rd.data)
       IN  IF ~rd.ok
           THEN /\ pc' = "exited"
                /\ diag' = "Erro ao ler o arquivo notes/notes.json"
                /\ notes' = <<>> /\ selected_index' = 0 /\ show_keybinds' = TRUE /\ toggles' = 0
                /\ UNCHANGED rawMode
           ELSE IF ~parsed.ok
           THEN /\ pc' = "exited"
                /\ diag' = "Erro ao desserializar as notas"
                /\ notes' = <<>> /\ selected_index' = 0 /\ show_keybinds' = TRUE /\ toggles' = 0
                /\ UNCHANGED rawMode
           ELSE \E term \in {"new_failed", "clear_failed", "ok"} :
                /\ notes' = parsed.val
                /\ selected_index' = 0
                /\ show_keybinds' = TRUE /\ toggles' = 0
                /\ IF term = "new_failed"
                   THEN Panic("Terminal::new") /\ UNCHANGED rawMode
                   ELSE /\ rawMode' = TRUE
                        /\ IF term = "clear_failed"
                           THEN Panic("terminal.clear")
                           ELSE pc' = "render" /\ diag' = ""

\* loop: terminal.draw(|f| ...).unwrap()
Render ==
    /\ pc = "render"
    /\ \E draw_ok \in BOOLEAN :
        IF ~draw_ok
        THEN Panic("terminal.draw") /\ UNCHANGED <<editor, last>>
        ELSE IF ~(selected_index < Len(notes))
        THEN Panic("index out of bounds") /\ UNCHANGED <<editor, last>>
        ELSE pc' = "input" /\ editor' = "not_run" /\ last' = NoAction
                           /\ UNCHANGED diag
    /\ UNCHANGED <<saved, dirExists, indexFile, noteFiles, now, cmd, notes,
                   selected_index, show_keybinds, toggles, rawMode>>

\* what event::read() returns
KeyCodes == {"Up", "k", "Down", "j", "q", "Esc", "Enter", "x", "?", "a"}
Events == [kind : {"Key"}, code : KeyCodes]
            \cup {[kind |-> "Resize", code |-> ""], [kind |-> "Err", code |-> ""]}

handle_user_input(ev) ==
    IF ev.kind = "Key"
    THEN CASE ev.code \in {"Up", "k"} -> "MoveUp"
           [] ev.code \in {"Down", "j"} -> "MoveDown"
           [] ev.code \in {"q", "Esc"} -> "Quit"
           [] ev.code = "Enter" -> "Open"
           [] ev.code = "x" -> "Delete"
           [] ev.code = "?" -> "ToggleKeybinds"
           [] OTHER -> "None"
    ELSE "None"

\* UserAction::MoveUp
MoveUp ==
    /\ selected_index' = IF selected_index > 0 THEN selected_index - 1
                         ELSE selected_index
    /\ pc' = "render"
    /\ UNCHANGED <<saved, dirExists, indexFile, noteFiles, now, cmd, diag, notes,
                   show_keybinds, toggles, rawMode, editor>>

\* MoveDown bounded by notes.len() instead of notes.len() - 1
MoveDown_off_by_one ==
    /\ selected_index' = IF selected_index < Len(notes) THEN selected_index + 1
                         ELSE selected_index
    /\ pc' = "render"
    /\ UNCHANGED <<saved, dirExists, indexFile, noteFiles, now, cmd, diag, notes,
                   show_keybinds, toggles, rawMode, editor>>

\* UserAction::MoveDown; notes.len() - 1 on an empty Vec panics when the build
\* checks overflow and wraps when it does not
MoveDown ==
    \E overflow_checks \in BOOLEAN :
        IF Len(notes) = 0 /\ overflow_checks
        THEN /\ Panic("attempt to subtract with overflow")
             /\ UNCHANGED <<saved, dirExists, indexFile, noteFiles, now, cmd, notes,
                            selected_index, show_keybinds, toggles, rawMode, editor>>
        ELSE LET bound == IF Len(notes) = 0 THEN USIZE_MAX ELSE Len(notes) - 1
             IN  /\ selected_index' = IF selected_index < bound
                                      THEN selected_index + 1
                                      ELSE selected_index
                 /\ pc' = "render"
                 /\ UNCHANGED <<saved, dirExists, indexFile, noteFiles, now, cmd, diag,
                                notes, show_keybinds, toggles, rawMode, editor>>

\* UserAction::Quit => break, then disable_raw_mode()
Quit ==
    /\ rawMode' = FALSE
    /\ pc' = "exited"
    /\ UNCHANGED <<saved, dirExists, indexFile, noteFiles, now, cmd, diag, notes,
                   selected_index, show_keybinds, toggles, editor>>

\* UserAction::Open
Open ==
    /\ UNCHANGED <<saved, dirExists, indexFile, now, cmd, notes, selected_index,
                   show_keybinds, toggles, rawMode>>
    /\ IF ~(selected_index < Len(notes))
       THEN Panic("index out of bounds") /\ UNCHANGED <<noteFiles, editor>>
       ELSE \E e \in EditorEnv :
            /\ editor' = status(e)
            /\ noteFiles' = EditorWrites(noteFiles, notes[selected_index + 1].title, e)
            /\ IF expect_status_panics(e)
               THEN Panic("Falha ao abrir o editor")
               ELSE pc' = "render" /\ UNCHANGED diag

\* the adjustment without the comparison with notes.len()
AdjustSelected_unguarded(sel, len) == IF sel > 0 THEN sel - 1 ELSE sel

\* the selected_index adjustment after delete_note
AdjustSelected(sel, len) == IF sel >= len /\ sel > 0 THEN sel - 1 ELSE sel

\* show_message: clear, draw, then sleep
show_message ==
    \E msg_ok \in BOOLEAN :
        IF msg_ok THEN pc' = "message" /\ UNCHANGED diag ELSE Panic("show_message")

\* a removal that succeeds whether the file exists or not
RemoveOutcomes_ignore_missing(nf, t) == BOOLEAN

\* fs::remove_file(path) succeeds or fails; it fails when the file is absent
RemoveOutcomes(nf, t) == IF t \in DOMAIN nf THEN BOOLEAN ELSE {FALSE}

\* UserAction::Delete: delete_note(&mut notes, selected_index), the adjustment
\* of selected_index and show_message up to its sleep
Delete ==
    /\ UNCHANGED <<dirExists, now, cmd, show_keybinds, toggles, rawMode, editor>>
    /\ IF selected_index < Len(notes)
       THEN LET title == notes[selected_index + 1].title
                removed == remove(notes, selected_index)
            IN  \E rm_ok \in RemoveOutcomes(noteFiles, title) :
                IF ~rm_ok
                THEN /\ Panic("Falha ao deletar o arquivo da nota")
                     /\ UNCHANGED <<indexFile, noteFiles, notes, selected_index,
                                    saved>>
                ELSE /\ noteFiles' = remove_file(noteFiles, title)
                     /\ notes' = removed
                     /\ \E w \in WriteOutcomes :
                        /\ indexFile' = fs_write(indexFile, to_string(removed), w)
                        /\ IF w # "ok"
                           THEN /\ Panic("Erro ao escrever no arquivo JSON")
                                /\ UNCHANGED <<selected_index, saved>>
                           ELSE /\ selected_index' =
                                       AdjustSelected(selected_index, Len(removed))
                                /\ saved' = removed
                                /\ show_message
       ELSE /\ selected_index' = AdjustSelected(selected_index, Len(notes))
            /\ show_message
            /\ UNCHANGED <<indexFile, noteFiles, notes, saved>>

\* a toggle that only hides the panel
ToggleKeybinds_hide_only ==
    /\ show_keybinds' = FALSE
    /\ toggles' = (toggles + 1) % 2
    /\ pc' = "render"
    /\ UNCHANGED <<saved, dirExists, indexFile, noteFiles, now, cmd, diag, notes,
                   selected_index, rawMode, editor>>

\* UserAction::ToggleKeybinds
ToggleKeybinds ==
    /\ show_keybinds' = ~show_keybinds
    /\ toggles' = (toggles + 1) % 2
    /\ pc' = "render"
    /\ UNCHANGED <<saved, dirExists, indexFile, noteFiles, now, cmd, diag, notes,
                   selected_index, rawMode, editor>>

\* the catch-all arm falling into the toggle
NoOp_toggles ==
    /\ show_keybinds' = ~show_keybinds
    /\ pc' = "render"
    /\ UNCHANGED <<saved, dirExists, indexFile, noteFiles, now, cmd, diag, notes,
                   selected_index, toggles, rawMode, editor>>

\* UserAction::None
NoOp ==
    /\ pc' = "render"
    /\ UNCHANGED <<saved, dirExists, indexFile, noteFiles, now, cmd, diag, notes,
                   selected_index, show_keybinds, toggles, rawMode, editor>>

\* loop: match handle_user_input() { ... }
Input ==
    /\ pc = "input"
    /\ \E ev \in Events :
        LET action == handle_user_input(ev)
        IN  /\ last' = [act |-> action, sel |-> selected_index, len |-> Len(notes)]
            /\ \/ action = "MoveUp" /\ MoveUp
               \/ action = "MoveDown" /\ MoveDown
               \/ action = "Quit" /\ Quit
               \/ action = "Open" /\ Open
               \/ action = "Delete" /\ Delete
               \/ action = "ToggleKeybinds" /\ ToggleKeybinds
               \/ action = "None" /\ NoOp

\* show_message: the sleep of one second ends and the loop goes on
\* a sleep that never returns
MessageDone_stuck ==
    /\ pc = "message"
    /\ UNCHANGED vars

\* the loop blocking on event::read without drawing the frame again
MessageDone_reads_input ==
    /\ pc = "message"
    /\ pc' = "input"
    /\ UNCHANGED <<saved, dirExists, indexFile, noteFiles, now, cmd, diag, notes,
                   selected_index, show_keybinds, toggles, rawMode, editor, last>>

\* thread::sleep(Duration::from_secs(1)) returns and the loop starts over
MessageDone ==
    /\ pc = "message"
    /\ pc' = "render"
    /\ UNCHANGED <<saved, dirExists, indexFile, noteFiles, now, cmd, diag, notes,
                   selected_index, show_keybinds, toggles, rawMode, editor, last>>

\* the process is gone and the shell prompts again: the files and the mode of
\* the terminal stay
ProcessExit ==
    /\ pc \in Stopped
    /\ pc' = "shell"
    /\ cmd' = NoCmd
    /\ diag' = ""
    /\ notes' = <<>>
    /\ selected_index' = 0
    /\ show_keybinds' = TRUE /\ toggles' = 0
    /\ editor' = "not_run"
    /\ last' = NoAction
    /\ UNCHANGED <<saved, dirExists, indexFile, noteFiles, now, rawMode>>

Next ==
    \/ \E title \in Titles : create_new_note(title)
    \/ list_notes
    \/ ProcessExit
    \/ Render
    \/ Input
    \/ MessageDone

Spec == Init /\ [][Next]_vars

\* the one-second sleep of show_message ends: no other step is needed for it
FairSpec == Spec /\ WF_vars(MessageDone)

----------------------------------------------------------------------------
(* Properties *)

Max(a, b) == IF a > b THEN a ELSE b

\* the viewer loop is running
InViewer == pc \in {"render", "input", "message"}

\* a process of `list` that got into display_tui
ViewerStarted ==
    /\ cmd.name = "list"
    /\ ~(pc = "exited" /\ diag # "")
    /\ diag # "Terminal::new"

\* what loading the index file gives
Persisted(f) == IF f.exists /\ f.wf THEN from_str(f).val ELSE <<>>

\* a step of the loop that matched Delete and in which delete_note returned
DeleteNoteReturned ==
    /\ pc = "input"
    /\ last'.act = "Delete"
    /\ diag' \notin {"Falha ao deletar o arquivo da nota",
                     "Erro ao escrever no arquivo JSON"}

\* a step that runs `list` / `new`
RunsList == pc = "shell" /\ cmd'.name = "list"
RunsNew == pc = "shell" /\ cmd'.name = "new"

BoundsPanics == {"index out of bounds", "attempt to subtract with overflow"}

\* the viewer was opened on an empty sequence: no action was applied to a
\* sequence that held a note
OpenedEmpty == cmd.name = "list" /\ Len(notes) = 0 /\ last.len = 0

\* C1: for every length N >= 0 of the initial note sequence, the viewer keeps
\* 0 <= selected_index < max(N, 1), and a viewer opened on an empty sequence
\* is not stopped by an out-of-bounds or overflow panic, so that MoveUp and
\* MoveDown apply to it.
C1_SelectionBounds ==
    ViewerStarted =>
        /\ 0 <= selected_index
        /\ selected_index < Max(Len(notes), 1)
        /\ (OpenedEmpty => diag \notin BoundsPanics)

\* C2: in a viewer holding zero notes the render step does not index out of
\* bounds, MoveUp / MoveDown / Open / Delete change nothing and do not panic,
\* and Quit ends the loop.
C2_EmptyViewerSafe ==
    [][(OpenedEmpty /\ pc \in {"render", "input"}) =>
          /\ diag' \notin BoundsPanics
          /\ (pc = "render" /\ diag' = "" => pc' = "input")
          /\ (pc = "input" /\ last'.act \in {"MoveUp", "MoveDown", "Open", "Delete"}
                => /\ pc' # "panicked"
                   /\ UNCHANGED <<notes, selected_index, show_keybinds,
                                  indexFile, noteFiles>>)
          /\ (pc = "input" /\ last'.act = "Quit" => pc' = "exited" /\ ~rawMode')
      ]_vars

\* C3: a Delete at index i of N >= 1 notes removes exactly the note at i from
\* the in-memory sequence and from the persisted index, the other N - 1 notes
\* keeping their order in both, and the file of the deleted note is gone.
C3_DeleteRemovesExactly ==
    [][DeleteNoteReturned =>
          LET i == selected_index
              N == Len(notes)
              old == Persisted(indexFile)
              new == Persisted(indexFile')
          IN  /\ N >= 1 /\ i < N
              /\ Len(notes') = N - 1
              /\ \A j \in 1..(N - 1) :
                    notes'[j] = IF j <= i THEN notes[j] ELSE notes[j + 1]
              /\ indexFile'.exists /\ indexFile'.wf
              /\ Len(new) = Len(old) - 1
              /\ \A j \in 1..Len(new) :
                    new[j] = IF j <= i THEN old[j] ELSE old[j + 1]
              /\ notes[i + 1].title \notin DOMAIN noteFiles'
      ]_vars

C3_Witness ==
    /\ pc = "message"
    /\ last = [act |-> "Delete", sel |-> 1, len |-> 3]
    /\ Len(notes) = 2
    /\ Len(Persisted(indexFile)) = 2

\* C4: a Delete decrements selected_index by one exactly when the deleted note
\* was at the last index and N > 1, and leaves it unchanged otherwise; with
\* three notes and selected_index = 2 it gives selected_index = 1, length 2.
C4_DeleteAdjustsSelection ==
    [][(DeleteNoteReturned /\ Len(notes) >= 1) =>
          /\ selected_index' =
                IF selected_index = Len(notes) - 1 /\ Len(notes) > 1
                THEN selected_index - 1
                ELSE selected_index
          /\ (Len(notes) = 3 /\ selected_index = 2
                => selected_index' = 1 /\ Len(notes') = 2)
      ]_vars

C4_Witness ==
    /\ pc = "message"
    /\ last = [act |-> "Delete", sel |-> 2, len |-> 3]
    /\ selected_index = 1
    /\ Len(notes) = 2

\* C5: raw mode is enabled while the viewer runs and is disabled whenever the
\* viewer has stopped, by Quit or by a fatal failure.
C5_RawModeRestored ==
    /\ (InViewer => rawMode)
    /\ (ViewerStarted /\ pc \in {"exited", "panicked"} => ~rawMode)

C8_MalformedIndexAbortsList ==
    [][(RunsList /\ indexFile.exists /\ ~indexFile.wf) =>
          /\ pc' = "exited"
          /\ diag' = "Erro ao desserializar as notas"
          /\ UNCHANGED <<rawMode, dirExists, indexFile, noteFiles>>
      ]_vars

C8_Witness ==
    /\ cmd.name = "list"
    /\ pc = "exited"
    /\ diag = "Erro ao desserializar as notas"
    /\ indexFile.exists /\ ~indexFile.wf
    /\ ~rawMode

\* C9: a successful `new <TITLE>` leaves the index equal to the previous one
\* with exactly one record appended at the end, holding the title given and
\* the content of the note file as the editor left it; from an empty store,
\* "todo" with "buy milk" makes the index load as exactly that note.
C9_NewAppendsOne ==
    [][(RunsNew /\ pc' = "exited") =>
          LET old == Persisted(indexFile)
              new == Persisted(indexFile')
              t == cmd'.title
          IN  /\ indexFile'.exists /\ indexFile'.wf
              /\ Len(new) = Len(old) + 1
              /\ \A j \in 1..Len(old) : new[j] = old[j]
              /\ new[Len(new)].title = t
              /\ t \in DOMAIN noteFiles'
              /\ new[Len(new)].content = noteFiles'[t]
      ]_vars

C9_Witness ==
    /\ cmd = CmdNew("todo")
    /\ pc = "exited"
    /\ now = 1
    /\ Len(Persisted(indexFile)) = 1
    /\ Persisted(indexFile)[1].title = "todo"
    /\ Persisted(indexFile)[1].content = "buy milk"

\* C10: whenever the viewer waits for an input event, the in-memory note
\* sequence equals the sequence stored in the index file: it holds from the
\* entry of the loop on, and a Delete has re-established it when it shows its
\* message, before the next event is read.
C10_MemoryEqualsIndex ==
    InViewer =>
        /\ indexFile.exists /\ indexFile.wf
        /\ notes = from_str(indexFile).val

C10_Witness ==
    /\ pc = "message"
    /\ last = [act |-> "Delete", sel |-> 1, len |-> 3]
    /\ Len(notes) = 2
    /\ notes = from_str(indexFile).val

\* a step of the loop that matched the given UserAction
Matched(a) == pc = "input" /\ last'.act = a

\* the keys handle_user_input knows
RecognizedKeys == {"Up", "k", "Down", "j", "q", "Esc", "Enter", "x", "?"}

\* C11: within the viewer only Delete changes the index file: MoveUp, MoveDown,
\* Open, ToggleKeybinds, Quit, an unrecognized key and an event that is no key
\* leave it unchanged, and an unrecognized key or non-key event also leaves
\* notes, selected_index and show_keybinds unchanged.
C11_OnlyDeleteWritesIndex ==
    [][InViewer =>
          /\ (~Matched("Delete") => indexFile' = indexFile)
          /\ \A ev \in Events :
                (ev.kind # "Key" \/ ev.code \notin RecognizedKeys)
                    => handle_user_input(ev) = "None"
          /\ (Matched("None") =>
                /\ pc' = "render"
                /\ UNCHANGED <<notes, selected_index, show_keybinds, indexFile>>)
      ]_vars

C11_Witness ==
    /\ pc = "render"
    /\ last = [act |-> "None", sel |-> 1, len |-> 2]
    /\ selected_index = 1
    /\ ~show_keybinds

C15_MovesStepByOne ==
    [][/\ (Matched("MoveUp") =>
              /\ selected_index' = IF selected_index > 0 THEN selected_index - 1
                                   ELSE selected_index
              /\ pc' = "render"
              /\ UNCHANGED <<notes, show_keybinds, dirExists, indexFile, noteFiles>>)
       /\ (Matched("MoveDown") =>
              /\ selected_index' = IF selected_index < Len(notes) - 1
                                   THEN selected_index + 1
                                   ELSE selected_index
              /\ pc' = "render"
              /\ UNCHANGED <<notes, show_keybinds, dirExists, indexFile, noteFiles>>)
      ]_vars

C15_Witness ==
    /\ pc = "render"
    /\ last = [act |-> "MoveDown", sel |-> 1, len |-> 2]
    /\ selected_index = 1

\* C16: when the file of the selected note cannot be removed in a Delete, for
\* one because it is absent, the Delete fails fatally before any other effect:
\* the note stays in the in-memory sequence, the index file is not rewritten
\* and no message is shown.
C16_RemoveFailureFirst ==
    [][Matched("Delete") /\ selected_index < Len(notes) =>
          /\ (notes[selected_index + 1].title \notin DOMAIN noteFiles
                => diag' = "Falha ao deletar o arquivo da nota")
          /\ (diag' = "Falha ao deletar o arquivo da nota" =>
                /\ pc' = "panicked"
                /\ UNCHANGED <<notes, selected_index, indexFile, noteFiles, saved>>)
      ]_vars

C16_Witness ==
    /\ pc = "panicked"
    /\ diag = "Falha ao deletar o arquivo da nota"
    /\ last.act = "Delete"
    /\ last.len = Len(notes)
    /\ notes[last.sel + 1].title \notin DOMAIN noteFiles
    /\ notes = from_str(indexFile).val

\* C17: the viewer starts with selected_index = 0 and show_keybinds = TRUE;
\* ToggleKeybinds negates show_keybinds and leaves notes, selected_index and
\* the index file unchanged; no other action changes show_keybinds; so it is
\* TRUE exactly when an even number of toggles was applied since the entry.
C17_KeybindsParity ==
    /\ [](InViewer => (show_keybinds <=> toggles = 0))
    /\ [][/\ (RunsList /\ InViewer' =>
                 selected_index' = 0 /\ show_keybinds' = TRUE /\ toggles' = 0)
          /\ (Matched("ToggleKeybinds") =>
                 /\ show_keybinds' = ~show_keybinds
                 /\ toggles' = (toggles + 1) % 2
                 /\ UNCHANGED <<notes, selected_index, indexFile>>)
          /\ (InViewer /\ ~Matched("ToggleKeybinds") =>
                 UNCHANGED <<show_keybinds, toggles>>)
         ]_vars

C17_Witness ==
    /\ pc = "render"
    /\ last.act = "ToggleKeybinds"
    /\ show_keybinds
    /\ toggles = 0

\* the messages of the panics a Delete can end in
DeletePanics ==
    {"Falha ao deletar o arquivo da nota", "Erro ao escrever no arquivo JSON",
     "show_message"}

\* C12: every Delete the process survives enters the message state; in it no
\* input event is read or applied and nothing changes; the viewer does not
\* terminate from it and does not stay in it forever: it goes back to browsing.
C12_MessageIsTransient ==
    /\ [][/\ (Matched("Delete") =>
                 \/ pc' = "message" /\ diag' = ""
                 \/ pc' = "panicked" /\ diag' \in DeletePanics)
          /\ (pc = "message" =>
                 /\ pc' = "render"
                 /\ UNCHANGED <<notes, selected_index, show_keybinds, indexFile,
                                noteFiles, last, diag, rawMode>>)
          /\ (pc' = "message" => Matched("Delete"))
         ]_vars
    /\ (pc = "message" ~> pc = "render")

C12_Witness ==
    /\ pc = "render"
    /\ last = [act |-> "Delete", sel |-> 0, len |-> 2]
    /\ Len(notes) = 1
    /\ selected_index = 0
    /\ diag = ""

\* C14: no two records of the index have the same title.
C14_TitlesUnique ==
    LET recs == Persisted(indexFile)
    IN  \A i, j \in 1..Len(recs) : i # j => recs[i].title # recs[j].title

\* the actions handle_user_input can return
UserActions ==
    {"MoveUp", "MoveDown", "Quit", "Open", "Delete", "ToggleKeybinds", "None"}

\* C18: an iteration of the loop draws, reads one event and applies at most
\* the one transition matched for it; a Delete has removed the note file,
\* removed the note from the sequence, rewritten the index and adjusted
\* selected_index when the next event is read, and a Delete that did not get
\* that far is never followed by a read.
C18_OneTransitionPerEvent ==
    [][/\ (pc' = "input" => pc = "render")
       /\ (pc = "input" =>
              /\ last'.act \in UserActions
              /\ last'.sel = selected_index /\ last'.len = Len(notes)
              /\ pc' \in {"render", "message", "exited", "panicked"}
              /\ (last'.act \notin {"MoveUp", "MoveDown", "Delete"}
                     => selected_index' = selected_index)
              /\ (last'.act # "Delete"
                     => UNCHANGED <<notes, indexFile>> /\ pc' # "message")
              /\ (last'.act \notin {"Delete", "Open"} => noteFiles' = noteFiles)
              /\ (last'.act # "ToggleKeybinds" => show_keybinds' = show_keybinds)
              /\ (last'.act # "Quit" => pc' # "exited" /\ rawMode' = rawMode)
              /\ (last'.act # "Open" => editor' = editor))
       /\ (Matched("Delete") /\ pc' = "message" =>
              LET note == notes[selected_index + 1]
              IN  /\ note.title \notin DOMAIN noteFiles'
                  /\ notes' = remove(notes, selected_index)
                  /\ indexFile'.wf /\ from_str(indexFile').val = notes'
                  /\ selected_index' = AdjustSelected(selected_index, Len(notes')))
       /\ (Matched("Delete") /\ pc' # "message" => pc' = "panicked")
       /\ (pc \in {"message", "render"} =>
              UNCHANGED <<notes, selected_index, show_keybinds, indexFile,
                          noteFiles>>)
       /\ (pc = "panicked" => pc' = "shell")
      ]_vars

C18_Witness ==
    /\ pc = "render"
    /\ last = [act |-> "Delete", sel |-> 2, len |-> 3]
    /\ Len(notes) = 2
    /\ selected_index = 1
    /\ indexFile.wf /\ from_str(indexFile).val = notes

\* C19: after the Delete of the only note the viewer is back in browsing with
\* an empty sequence and selected_index = 0, the render that follows does not
\* index out of bounds, and Quit ends the loop.
C19_DeleteOnlyNoteSafe ==
    [][/\ (pc = "render" /\ last.act = "Delete" /\ last.len = 1 =>
              /\ notes = <<>>
              /\ selected_index = 0
              /\ diag' \notin BoundsPanics
              /\ (diag' = "" => pc' = "input"))
       /\ (Matched("Quit") /\ Len(notes) = 0 => pc' = "exited")
      ]_vars

\* every record of the index has its note file
Backed ==
    \A i \in 1..Len(Persisted(indexFile)) :
        Persisted(indexFile)[i].title \in DOMAIN noteFiles

\* C20: a successful note creation and a successful Delete keep every record
\* of the index backed by its note file: a Delete never removes the file of a
\* record that stays in the index.
C20_RecordsKeepFiles ==
    [][/\ (Backed /\ RunsNew /\ pc' = "exited" /\ diag' = "" => Backed')
       /\ (Backed /\ Matched("Delete") /\ pc' = "message" => Backed')
      ]_vars

====
